---- MODULE Spec2Model ----
(***************************************************************************)
(* Model of the uniqueid crate (src/src/lib.rs, src/src/identifier.rs):    *)
(* the key/value data object, the category builder and its string build,   *)
(* the Identifier and its to_string, the IdentifierBuilder, and the        *)
(* string-to-tag conversion.                                               *)
(*                                                                         *)
(* A Rust String is modelled as a sequence of one-character strings, so    *)
(* push, push_str and pop are sequence operations.  A call that panics is  *)
(* recorded in ret with ok = FALSE.                                        *)
(***************************************************************************)
EXTENDS Integers, Sequences, FiniteSets

VARIABLES
    sys,    \* what the system reports: processors, total memory, disks
    made,   \* the arguments of the latest IdentifierTypeData::new call
    attr,   \* the IdentifierTypeData object that call returned
    tdb,    \* the IdentifierTypeDataBuilder, and the add calls made on it
    ib,     \* the IdentifierBuilder
    calls,  \* the constructor, name and add calls made on ib, in order
    id,     \* the Identifier
    seen,   \* the first hashed render of the current Identifier
    ret     \* what the latest call returned, or that it panicked

vars == <<sys, made, attr, tdb, ib, calls, id, seen, ret>>

(***************************************************************************)
(* Bounds of the model.                                                    *)
(***************************************************************************)
\* longest data list of an IdentifierTypeDataBuilder
MaxData == 3
\* most IdentifierTypeDataList elements of an Identifier
MaxTypes == 2
\* most key/value pairs stored in the lists of one Identifier
MaxStored == 2
\* most name and add calls made on one IdentifierBuilder
MaxCalls == 4
\* most processors and most disks the system reports
MaxCpus == 2
MaxDisks == 2

(***************************************************************************)
(* Strings.                                                                *)
(***************************************************************************)
EmptyStr == << >>

\* String::push_str / String::push
PushStr(s, t) == s \o t
PushChar(s, c) == Append(s, c)

\* String::pop: removes the last char; on an empty string it removes nothing
Pop(s) == IF Len(s) = 0 THEN s ELSE SubSeq(s, 1, Len(s) - 1)

\* the string inputs the operations are called with
Keys == { <<"V","e","n","d","o","r">>, <<"M","o","d","e","l">> }
Values == { <<"I","n","t","e","l">>,
            <<"X","e","o","n"," ","E","5","-","2","6","7","0">> }
Names == { <<"H","W","I","D">>, <<"n","a","m","e">> }

\* Option<String>
None == [some |-> FALSE, s |-> EmptyStr]
Some(s) == [some |-> TRUE, s |-> s]

(***************************************************************************)
(* enum IdentifierType, as_str and From<&str>.                             *)
(***************************************************************************)
IdentifierType == {"CPU", "RAM", "DISK"}

as_str(t) ==
    CASE t = "CPU" -> <<"C","P","U">>
      [] t = "RAM" -> <<"R","A","M">>
      [] t = "DISK" -> <<"D","I","S","K">>

\* a from() whose "RAM" and "DISK" arms are exchanged
FromStrSwapped(name) ==
    CASE name = <<"C","P","U">> -> [ok |-> TRUE, tag |-> "CPU"]
      [] name = <<"R","A","M">> -> [ok |-> TRUE, tag |-> "DISK"]
      [] name = <<"D","I","S","K">> -> [ok |-> TRUE, tag |-> "RAM"]
      [] OTHER -> [ok |-> FALSE, tag |-> "none"]

\* the result of from(name): a tag, or a panic (ok = FALSE)
FromStr(name) ==
    CASE name = <<"C","P","U">> -> [ok |-> TRUE, tag |-> "CPU"]
      [] name = <<"R","A","M">> -> [ok |-> TRUE, tag |-> "RAM"]
      [] name = <<"D","I","S","K">> -> [ok |-> TRUE, tag |-> "DISK"]
      [] OTHER -> [ok |-> FALSE, tag |-> "none"]

\* the names from() is called with: the three tags and unrecognised names
FromInputs == { <<"C","P","U">>, <<"R","A","M">>, <<"D","I","S","K">>,
                <<"G","P","U">>, <<"c","p","u">>, <<"N","E","T">>, EmptyStr }

(***************************************************************************)
(* struct IdentifierTypeData: new, key, value, Display::fmt.               *)
(***************************************************************************)
\* a constructor that stores its arguments the wrong way round
IdentifierTypeDataSwapped(key, value) == [key |-> value, value |-> key]

IdentifierTypeData(key, value) == [key |-> key, value |-> value]

\* write!(f, "{}={}", self.key, self.value)
DataFmt(d) == PushStr(PushChar(d.key, "="), d.value)

(***************************************************************************)
(* IdentifierTypeDataBuilder: new, add, build.                             *)
(***************************************************************************)
\* format!("{}={}, ", item.key, item.value)
ItemFmt(item) == item.key \o <<"=">> \o item.value \o <<",", " ">>

RECURSIVE PushItems(_, _)
PushItems(data, items) ==
    IF items = << >> THEN data
    ELSE PushItems(PushStr(data, ItemFmt(Head(items))), Tail(items))

DataBuilderBuild(b) ==
    LET d0 == PushStr(EmptyStr, as_str(b.identifier))
        d1 == PushChar(d0, "(")
        d2 == PushItems(d1, b.data)
        d3 == Pop(d2)
        d4 == Pop(d3)
    IN  PushChar(d4, ")")

(***************************************************************************)
(* What sysinfo reports (System::new_all, refresh_all): the processors,    *)
(* the total memory and the disks.                                         *)
(***************************************************************************)
CpuModels ==
    { [brand |-> <<" ","X","e","o","n"," ","E","5"," ">>,
       vendor_id |-> <<"G","e","n","u","i","n","e","I","n","t","e","l">>,
       frequency |-> 2600],
      [brand |-> <<"R","y","z","e","n","\t">>,
       vendor_id |-> <<"A","M","D">>,
       frequency |-> 0] }

RamSizes == {0, 16384}

DiskKinds ==
    { [removable |-> FALSE, total_space |-> 500],
      [removable |-> FALSE, total_space |-> 1024],
      [removable |-> TRUE, total_space |-> 32] }

\* the machine the model starts on
InitSys ==
    [cpus |-> << [brand |-> <<" ","X","e","o","n"," ","E","5"," ">>,
                  vendor_id |-> <<"G","e","n","u","i","n","e","I","n","t","e","l">>,
                  frequency |-> 2600] >>,
     ram |-> 16384,
     disks |-> << [removable |-> FALSE, total_space |-> 500] >>]

(***************************************************************************)
(* str::to_lowercase, str::trim and the decimal to_string of an integer.   *)
(***************************************************************************)
UpperLetters == <<"A","B","C","D","E","F","G","H","I","J","K","L","M",
                  "N","O","P","Q","R","S","T","U","V","W","X","Y","Z">>
LowerLetters == <<"a","b","c","d","e","f","g","h","i","j","k","l","m",
                  "n","o","p","q","r","s","t","u","v","w","x","y","z">>

LowerChar(c) ==
    IF \E i \in 1..Len(UpperLetters) : UpperLetters[i] = c
    THEN LowerLetters[CHOOSE i \in 1..Len(UpperLetters) : UpperLetters[i] = c]
    ELSE c

ToLowercase(s) == [i \in 1..Len(s) |-> LowerChar(s[i])]

IsWhitespace(c) == c \in {" ", "\t", "\n", "\r"}

RECURSIVE TrimStart(_)
TrimStart(s) ==
    IF s # << >> /\ IsWhitespace(Head(s)) THEN TrimStart(Tail(s)) ELSE s

RECURSIVE TrimEnd(_)
TrimEnd(s) ==
    IF s # << >> /\ IsWhitespace(s[Len(s)])
    THEN TrimEnd(SubSeq(s, 1, Len(s) - 1)) ELSE s

Trim(s) == TrimEnd(TrimStart(s))

Digits == <<"0","1","2","3","4","5","6","7","8","9">>

RECURSIVE ToDecimal(_)
ToDecimal(n) ==
    IF n < 10 THEN << Digits[n + 1] >>
    ELSE Append(ToDecimal(n \div 10), Digits[(n % 10) + 1])

(***************************************************************************)
(* IdentifierTypeDataList: new, build, build_cpu, build_ram, build_disk.   *)
(* A build result is [ok, s]: ok = FALSE when the call panicked.           *)
(***************************************************************************)
IdentifierTypeDataList(identifier) == [identifier |-> identifier, data |-> << >>]

Returned(s) == [ok |-> TRUE, s |-> s]
Panicked == [ok |-> FALSE, s |-> EmptyStr]

\* IdentifierTypeDataBuilder::new and add, as the build_* functions chain them
DataBuilderNew(identifier) == [identifier |-> identifier, data |-> << >>]
\* an add that inserts at the front
DataBuilderAddFront(b, key, value) ==
    [b EXCEPT !.data = << [key |-> key, value |-> value] >> \o @]

DataBuilderAdd(b, key, value) ==
    [b EXCEPT !.data = Append(@, [key |-> key, value |-> value])]

\* cpu[0] indexes the processor slice: out of bounds when it is empty
build_cpu(self, s) ==
    IF Len(s.cpus) = 0 THEN Panicked
    ELSE LET cpu == s.cpus
             brand == cpu[1].brand
             vendor == cpu[1].vendor_id
             frequency == cpu[1].frequency
             cores == Len(cpu)
             b0 == DataBuilderNew("CPU")
             b1 == DataBuilderAdd(b0, <<"b">>, Trim(ToLowercase(brand)))
             b2 == DataBuilderAdd(b1, <<"v">>, Trim(ToLowercase(vendor)))
             b3 == DataBuilderAdd(b2, <<"f">>, ToDecimal(frequency))
             b4 == DataBuilderAdd(b3, <<"c">>, ToDecimal(cores))
         IN  Returned(PushStr(EmptyStr, DataBuilderBuild(b4)))

build_ram(self, s) ==
    LET ram == s.ram
        b0 == DataBuilderNew("RAM")
        b1 == DataBuilderAdd(b0, <<"t">>, ToDecimal(ram))
    IN  Returned(PushStr(EmptyStr, DataBuilderBuild(b1)))

RECURSIVE DiskLoop(_, _)
DiskLoop(result, disks) ==
    IF disks = << >> THEN result
    ELSE LET disk == Head(disks)
         IN  IF disk.removable THEN DiskLoop(result, Tail(disks))
             ELSE LET b0 == DataBuilderNew("DISK")
                      b1 == DataBuilderAdd(b0, <<"t">>, ToDecimal(disk.total_space))
                  IN  DiskLoop(PushStr(result, DataBuilderBuild(b1)), Tail(disks))

build_disk(self, s) == Returned(DiskLoop(EmptyStr, s.disks))

DataListBuild(self, s) ==
    CASE self.identifier = "CPU" -> build_cpu(self, s)
      [] self.identifier = "RAM" -> build_ram(self, s)
      [] self.identifier = "DISK" -> build_disk(self, s)

(***************************************************************************)
(* Identifier: new, to_string.                                             *)
(***************************************************************************)
IdentifierNew(name) == [name |-> Some(name), data |-> << >>]
IdentifierDefault == [name |-> None, data |-> << >>]

\* a loop that pushes "," where the code pushes ", "
RECURSIVE TypeLoopComma(_, _, _)
TypeLoopComma(result, data, s) ==
    IF data = << >> THEN Returned(result)
    ELSE LET built == DataListBuild(Head(data), s)
         IN  IF ~built.ok THEN Panicked
             ELSE TypeLoopComma(PushStr(PushStr(result, built.s), <<",">>),
                                Tail(data), s)

\* for i in &self.data { result.push_str(&i.build()); result.push_str(", "); }
RECURSIVE TypeLoop(_, _, _)
TypeLoop(result, data, s) ==
    IF data = << >> THEN Returned(result)
    ELSE LET built == DataListBuild(Head(data), s)
         IN  IF ~built.ok THEN Panicked
             ELSE TypeLoop(PushStr(PushStr(result, built.s), <<",", " ">>),
                           Tail(data), s)

\* the local `result` of to_string when its hash branch is reached
Plain(self, s) ==
    LET r0 == IF self.name.some THEN PushStr(EmptyStr, self.name.s) ELSE EmptyStr
        r1 == PushChar(r0, "[")
        r2 == TypeLoop(r1, self.data, s)
    IN  IF ~r2.ok THEN Panicked
        ELSE Returned(PushChar(Pop(Pop(r2.s)), "]"))

(***************************************************************************)
(* Sha3_512 of the sha3 crate, as to_string calls it: Keccak-f[1600] on a  *)
(* state of 25 lanes of 8 bytes (least significant byte first), rate 72    *)
(* bytes, padding 0x06 .. 0x80, 64 bytes of output.                        *)
(***************************************************************************)
\* a sequence built element by element, as a tuple
Seq8(f(_)) == << f(1), f(2), f(3), f(4), f(5), f(6), f(7), f(8) >>

RECURSIVE BitXor(_, _, _)
BitXor(a, b, n) ==
    IF n = 0 THEN 0
    ELSE ((a + b) % 2) + 2 * BitXor(a \div 2, b \div 2, n - 1)

RECURSIVE BitAnd(_, _, _)
BitAnd(a, b, n) ==
    IF n = 0 THEN 0
    ELSE ((a % 2) * (b % 2)) + 2 * BitAnd(a \div 2, b \div 2, n - 1)

\* XorTab[a + 1][b + 1] = a XOR b and AndNotTab[a + 1][b + 1] = (NOT a) AND b
XorTab == [a \in 1..256 |-> [b \in 1..256 |-> BitXor(a - 1, b - 1, 8)] \o << >>] \o << >>
AndNotTab == [a \in 1..256 |-> [b \in 1..256 |-> BitAnd(256 - a, b - 1, 8)] \o << >>] \o << >>

Xor(a, b) == XorTab[a + 1][b + 1]
AndNot(a, b) == AndNotTab[a + 1][b + 1]

Pow2 == << 1, 2, 4, 8, 16, 32, 64, 128, 256 >>

XorLane(a, b) ==
    LET f(i) == Xor(a[i], b[i]) IN Seq8(f)

\* rotate a lane left by n bits
RotLane(b, n) ==
    LET q == n \div 8
        k == n % 8
        f(i) == ((b[((i - 1 - q + 8) % 8) + 1] * Pow2[k + 1]) % 256)
                    + (b[((i - 1 - q + 7) % 8) + 1] \div Pow2[9 - k])
    IN  Seq8(f)

\* the rotation offsets, for the lane at index 1 + x + 5y
RhoOffsets ==
    <<  0,  1, 62, 28, 27,
       36, 44,  6, 55, 20,
        3, 10, 43, 25, 39,
       41, 45, 15, 21,  8,
       18,  2, 61, 56, 14 >>

RoundConstants ==
    << <<1,0,0,0,0,0,0,0>>,
       <<130,128,0,0,0,0,0,0>>,
       <<138,128,0,0,0,0,0,128>>,
       <<0,128,0,128,0,0,0,128>>,
       <<139,128,0,0,0,0,0,0>>,
       <<1,0,0,128,0,0,0,0>>,
       <<129,128,0,128,0,0,0,128>>,
       <<9,128,0,0,0,0,0,128>>,
       <<138,0,0,0,0,0,0,0>>,
       <<136,0,0,0,0,0,0,0>>,
       <<9,128,0,128,0,0,0,0>>,
       <<10,0,0,128,0,0,0,0>>,
       <<139,128,0,128,0,0,0,0>>,
       <<139,0,0,0,0,0,0,128>>,
       <<137,128,0,0,0,0,0,128>>,
       <<3,128,0,0,0,0,0,128>>,
       <<2,128,0,0,0,0,0,128>>,
       <<128,0,0,0,0,0,0,128>>,
       <<10,128,0,0,0,0,0,0>>,
       <<10,0,0,128,0,0,0,128>>,
       <<129,128,0,128,0,0,0,128>>,
       <<128,128,0,0,0,0,0,128>>,
       <<1,0,0,128,0,0,0,0>>,
       <<8,128,0,128,0,0,0,128>> >>

Theta(A) ==
    LET C == [x \in 1..5 |->
                 XorLane(XorLane(XorLane(XorLane(A[x], A[x + 5]), A[x + 10]),
                                 A[x + 15]), A[x + 20])] \o << >>
        D == [x \in 1..5 |->
                 XorLane(C[((x + 3) % 5) + 1], RotLane(C[(x % 5) + 1], 1))] \o << >>
    IN  [i \in 1..25 |-> XorLane(A[i], D[((i - 1) % 5) + 1])] \o << >>

\* B[y, 2x + 3y] = rot(A[x, y], offset[x, y])
RhoPi(A) ==
    [j \in 1..25 |->
        LET bx == (j - 1) % 5
            by == (j - 1) \div 5
            x == (bx + 3 * by) % 5
            y == bx
        IN  RotLane(A[1 + x + 5 * y], RhoOffsets[1 + x + 5 * y])] \o << >>

Chi(B) ==
    [j \in 1..25 |->
        LET x == (j - 1) % 5
            y == (j - 1) \div 5
            b0 == B[j]
            b1 == B[1 + ((x + 1) % 5) + 5 * y]
            b2 == B[1 + ((x + 2) % 5) + 5 * y]
            f(i) == Xor(b0[i], AndNot(b1[i], b2[i]))
        IN  Seq8(f)] \o << >>

Iota(A, r) == [A EXCEPT ![1] = XorLane(@, RoundConstants[r])]

Round(A, r) == Iota(Chi(RhoPi(Theta(A))), r)

\* the 24 rounds, on a state of 25 lanes
RECURSIVE KeccakF(_, _)
KeccakF(A, r) ==
    IF Len(A) # 25 \/ r > 24 THEN A ELSE KeccakF(Round(A, r), r + 1)

Rate == 72
OutputBytes == 64

ZeroLane == << 0, 0, 0, 0, 0, 0, 0, 0 >>
ZeroState == [i \in 1..25 |-> ZeroLane] \o << >>

\* pad10*1 with the SHA-3 domain bits: 0x06, zeros, and 0x80 on the last byte
Pad(bytes) ==
    LET n == Rate - (Len(bytes) % Rate)
    IN  IF n = 1 THEN bytes \o << 134 >>
        ELSE bytes \o << 6 >> \o [i \in 1..(n - 2) |-> 0] \o << 128 >>

\* xor one block of Rate bytes into the first Rate / 8 lanes
AbsorbBlock(A, block) ==
    [j \in 1..25 |->
        IF j <= Rate \div 8
        THEN XorLane(A[j], SubSeq(block, 8 * (j - 1) + 1, 8 * j))
        ELSE A[j]] \o << >>

RECURSIVE Absorb(_, _)
Absorb(A, padded) ==
    IF padded = << >> THEN A
    ELSE Absorb(KeccakF(AbsorbBlock(A, SubSeq(padded, 1, Rate)), 1),
                SubSeq(padded, Rate + 1, Len(padded)))

Squeeze(A) ==
    [i \in 1..OutputBytes |-> A[((i - 1) \div 8) + 1][((i - 1) % 8) + 1]] \o << >>

Sha3_512(bytes) == Squeeze(Absorb(ZeroState, Pad(bytes)))

\* str::as_bytes: the UTF-8 bytes of a string of printable ASCII characters
Ascii ==
    << " ", "!", "QUOTE", "#", "$", "%", "&", "'", "(", ")", "*", "+", ",", "-", ".", "/", "0", "1", "2", "3", "4", "5", "6", "7", "8", "9", ":", ";", "<", "=", ">", "?", "@", "A", "B", "C", "D", "E", "F", "G", "H", "I", "J", "K", "L", "M", "N", "O", "P", "Q", "R", "S", "T", "U", "V", "W", "X", "Y", "Z", "[", "BACKSLASH", "]", "^", "_", "BACKTICK", "a", "b", "c", "d", "e", "f", "g", "h", "i", "j", "k", "l", "m", "n", "o", "p", "q", "r", "s", "t", "u", "v", "w", "x", "y", "z", "{", "|", "}", "~" >>

ByteOf(c) == 31 + (CHOOSE i \in 1..Len(Ascii) : Ascii[i] = c)

AsBytes(s) == [i \in 1..Len(s) |-> ByteOf(s[i])] \o << >>

\* format!("{:x}", bytes): two lowercase hexadecimal digits per byte
HexDigits == <<"0","1","2","3","4","5","6","7","8","9","a","b","c","d","e","f">>

\* the digits and the digest format!("{:X}", bytes) would give
UpperHexDigits == <<"0","1","2","3","4","5","6","7","8","9","A","B","C","D","E","F">>

RECURSIVE UpperHex(_)
UpperHex(bytes) ==
    IF bytes = << >> THEN << >>
    ELSE << UpperHexDigits[(Head(bytes) \div 16) + 1],
            UpperHexDigits[(Head(bytes) % 16) + 1] >>
             \o UpperHex(Tail(bytes))

RECURSIVE LowerHex(_)
LowerHex(bytes) ==
    IF bytes = << >> THEN << >>
    ELSE << HexDigits[(Head(bytes) \div 16) + 1], HexDigits[(Head(bytes) % 16) + 1] >>
             \o LowerHex(Tail(bytes))

\* lines 337-341: hash result.as_bytes() and format the digest
Hashed(result) == LowerHex(Sha3_512(AsBytes(result)))

\* to_string(hash): the plain result, or its digest
ToStringResult(self, s, hash) ==
    LET result == Plain(self, s)
    IN  IF ~result.ok THEN Panicked
        ELSE IF hash THEN Returned(Hashed(result.s))
        ELSE result

(***************************************************************************)
(* IdentifierBuilder: default, new, name, add, build.                      *)
(***************************************************************************)
IdentifierBuilderDefault == [name |-> None, data |-> << >>]

\* both branches of new() keep the name and the data they are given
IdentifierBuilderNew(name, data) ==
    IF name.some THEN [name |-> Some(name.s), data |-> data]
    ELSE [name |-> None, data |-> data]

\* a name that keeps the first name it was given
IdentifierBuilderNameOnce(self, name) ==
    IF self.name.some THEN self ELSE [self EXCEPT !.name = Some(name)]

IdentifierBuilderName(self, name) == [self EXCEPT !.name = Some(name)]

IdentifierBuilderAdd(self, identifier) ==
    [self EXCEPT !.data = Append(@, IdentifierTypeDataList(identifier))]

IdentifierBuilderBuild(self) == [name |-> self.name, data |-> self.data]

(***************************************************************************)
(* The state machine.                                                      *)
(***************************************************************************)
\* a returned value: the call, whether it returned, a string, a tag, the
\* hash argument of to_string
R(op, ok, str, tag, hash) ==
    [op |-> op, ok |-> ok, str |-> str, tag |-> tag, hash |-> hash]

\* the calls that return no value of interest (a constructor, a chained
\* &mut Self) leave Nothing
Nothing == R("none", TRUE, EmptyStr, "none", FALSE)
Str(op, s) == R(op, TRUE, s, "none", FALSE)

\* no hashed render yet of the current Identifier
NotSeen == [some |-> FALSE, plain |-> EmptyStr, digest |-> EmptyStr]

InitKey == <<"V","e","n","d","o","r">>
InitValue == <<"I","n","t","e","l">>

Init ==
    /\ sys = InitSys
    /\ made = [key |-> InitKey, value |-> InitValue]
    /\ attr = IdentifierTypeData(InitKey, InitValue)
    /\ tdb = [live |-> TRUE, b |-> DataBuilderNew("CPU"), adds |-> << >>]
    /\ ib = [live |-> TRUE, b |-> IdentifierBuilderDefault]
    /\ calls = << [op |-> "new", name |-> None, data |-> << >>] >>
    /\ id = IdentifierDefault
    /\ seen = NotSeen
    /\ ret = Nothing

\* ---- IdentifierTypeData ----
DataNew(key, value) ==
    /\ made' = [key |-> key, value |-> value]
    /\ attr' = IdentifierTypeData(key, value)
    /\ ret' = Nothing
    /\ UNCHANGED <<sys, tdb, ib, calls, id, seen>>

DataKey ==
    /\ ret' = Str("key", attr.key)
    /\ UNCHANGED <<sys, made, attr, tdb, ib, calls, id, seen>>

DataValue ==
    /\ ret' = Str("value", attr.value)
    /\ UNCHANGED <<sys, made, attr, tdb, ib, calls, id, seen>>

DataToString ==
    /\ ret' = Str("fmt", DataFmt(attr))
    /\ UNCHANGED <<sys, made, attr, tdb, ib, calls, id, seen>>

\* ---- IdentifierTypeDataBuilder ----
TDBNew(identifier) ==
    /\ tdb' = [live |-> TRUE, b |-> DataBuilderNew(identifier), adds |-> << >>]
    /\ ret' = Nothing
    /\ UNCHANGED <<sys, made, attr, ib, calls, id, seen>>

TDBAdd(key, value) ==
    /\ tdb.live
    /\ Len(tdb.adds) < MaxData
    /\ tdb' = [tdb EXCEPT !.b = DataBuilderAdd(@, key, value),
                          !.adds = Append(@, [key |-> key, value |-> value])]
    /\ ret' = Nothing
    /\ UNCHANGED <<sys, made, attr, ib, calls, id, seen>>

\* build(self) consumes the builder; tdb keeps what was built
TDBBuild ==
    /\ tdb.live
    /\ tdb' = [tdb EXCEPT !.live = FALSE]
    /\ ret' = Str("tdb_build", DataBuilderBuild(tdb.b))
    /\ UNCHANGED <<sys, made, attr, ib, calls, id, seen>>

\* ---- IdentifierType::from ----
From(name) ==
    /\ LET r == FromStr(name)
       IN  ret' = R("from", r.ok, name, r.tag, FALSE)
    /\ UNCHANGED <<sys, made, attr, tdb, ib, calls, id, seen>>

\* ---- IdentifierBuilder ----
\* a new builder starts a new request: the Identifier of the previous one
\* is dropped
IBDefault ==
    /\ ib' = [live |-> TRUE, b |-> IdentifierBuilderDefault]
    /\ calls' = << [op |-> "new", name |-> None, data |-> << >>] >>
    /\ id' = IdentifierDefault
    /\ ret' = Nothing
    /\ UNCHANGED <<sys, made, attr, tdb>>
    /\ seen' = NotSeen

IBNew(name, data) ==
    /\ ib' = [live |-> TRUE, b |-> IdentifierBuilderNew(name, data)]
    /\ calls' = << [op |-> "new", name |-> name, data |-> data] >>
    /\ id' = IdentifierDefault
    /\ ret' = Nothing
    /\ UNCHANGED <<sys, made, attr, tdb>>
    /\ seen' = NotSeen

IBName(name) ==
    /\ ib.live
    /\ Len(calls) <= MaxCalls
    /\ ib' = [ib EXCEPT !.b = IdentifierBuilderName(@, name)]
    /\ calls' = Append(calls, [op |-> "name", name |-> Some(name), data |-> << >>])
    /\ ret' = Nothing
    /\ UNCHANGED <<sys, made, attr, tdb, id, seen>>

IBAdd(identifier) ==
    /\ ib.live
    /\ Len(calls) <= MaxCalls
    /\ ib' = [ib EXCEPT !.b = IdentifierBuilderAdd(@, identifier)]
    /\ calls' = Append(calls, [op |-> "add", name |-> None,
                               data |-> << IdentifierTypeDataList(identifier) >>])
    /\ ret' = Nothing
    /\ UNCHANGED <<sys, made, attr, tdb, id, seen>>

\* build(self) consumes the builder and returns the Identifier
IBBuild ==
    /\ ib.live
    /\ ib' = [ib EXCEPT !.live = FALSE]
    /\ id' = IdentifierBuilderBuild(ib.b)
    /\ ret' = R("ib_build", TRUE, EmptyStr, "none", FALSE)
    /\ UNCHANGED <<sys, made, attr, tdb, calls>>
    /\ seen' = NotSeen

\* ---- Identifier ----
IdNew(name) ==
    /\ id' = IdentifierNew(name)
    /\ ret' = Nothing
    /\ UNCHANGED <<sys, made, attr, tdb, ib, calls>>
    /\ seen' = NotSeen

IdDefault ==
    /\ id' = IdentifierDefault
    /\ ret' = Nothing
    /\ UNCHANGED <<sys, made, attr, tdb, ib, calls>>
    /\ seen' = NotSeen

\* identifier.data.push(IdentifierTypeDataList::new(t)): data is a pub field
IdPush(identifier) ==
    /\ Len(id.data) < MaxTypes
    /\ id' = [id EXCEPT !.data = Append(@, IdentifierTypeDataList(identifier))]
    /\ ret' = Nothing
    /\ UNCHANGED <<sys, made, attr, tdb, ib, calls, seen>>

RECURSIVE Stored(_)
Stored(data) ==
    IF data = << >> THEN 0 ELSE Len(Head(data).data) + Stored(Tail(data))

\* identifier.data[i].data.push(IdentifierTypeData::new(key, value))
IdPushData(i, key, value) ==
    /\ i \in 1..Len(id.data)
    /\ Stored(id.data) < MaxStored
    /\ id' = [id EXCEPT !.data[i].data = Append(@, IdentifierTypeData(key, value))]
    /\ ret' = Nothing
    /\ UNCHANGED <<sys, made, attr, tdb, ib, calls, seen>>

ToString(hash) ==
    /\ \E r \in {ToStringResult(id, sys, hash)} :
          /\ ret' = R("to_string", r.ok, r.s, "none", hash)
          /\ seen' = IF hash /\ r.ok /\ ~seen.some
                     THEN [some |-> TRUE, plain |-> Plain(id, sys).s, digest |-> r.s]
                     ELSE seen
    /\ UNCHANGED <<sys, made, attr, tdb, ib, calls, id>>

\* ---- the system changes between two queries; ret is the result of a  ----
\* ---- call on the current system, so a change clears it                ----
CpuOnline(c) ==
    /\ Len(sys.cpus) < MaxCpus
    /\ sys' = [sys EXCEPT !.cpus = Append(@, c)]
    /\ ret' = Nothing
    /\ UNCHANGED <<made, attr, tdb, ib, calls, id, seen>>

CpuOffline ==
    /\ Len(sys.cpus) > 0
    /\ sys' = [sys EXCEPT !.cpus = Tail(@)]
    /\ ret' = Nothing
    /\ UNCHANGED <<made, attr, tdb, ib, calls, id, seen>>

DiskAttach(d) ==
    /\ Len(sys.disks) < MaxDisks
    /\ sys' = [sys EXCEPT !.disks = Append(@, d)]
    /\ ret' = Nothing
    /\ UNCHANGED <<made, attr, tdb, ib, calls, id, seen>>

DiskDetach ==
    /\ Len(sys.disks) > 0
    /\ sys' = [sys EXCEPT !.disks = Tail(@)]
    /\ ret' = Nothing
    /\ UNCHANGED <<made, attr, tdb, ib, calls, id, seen>>

RamResize(r) ==
    /\ r # sys.ram
    /\ sys' = [sys EXCEPT !.ram = r]
    /\ ret' = Nothing
    /\ UNCHANGED <<made, attr, tdb, ib, calls, id, seen>>

(***************************************************************************)
(* Specifications.                                                         *)
(***************************************************************************)
\* the key/value object, the category builder and the tag conversion
NextData ==
    \/ \E k \in Keys, v \in Values : DataNew(k, v)
    \/ DataKey
    \/ DataValue
    \/ DataToString
    \/ \E t \in IdentifierType : TDBNew(t)
    \/ \E k \in Keys, v \in Values : TDBAdd(k, v)
    \/ TDBBuild
    \/ \E n \in FromInputs : From(n)

SpecData == Init /\ [][NextData]_vars

\* the IdentifierBuilder
SeedNames == {None} \cup {Some(n) : n \in Names}
SeedData == { << >>, << IdentifierTypeDataList("DISK") >> }

NextBuilder ==
    \/ IBDefault
    \/ \E n \in SeedNames, d \in SeedData : IBNew(n, d)
    \/ \E n \in Names : IBName(n)
    \/ \E t \in IdentifierType : IBAdd(t)
    \/ IBBuild

SpecBuilder == Init /\ [][NextBuilder]_vars

\* the Identifier and its plain to_string on a changing system
NextIdent ==
    \/ \E n \in Names : IdNew(n)
    \/ IdDefault
    \/ \E t \in IdentifierType : IdPush(t)
    \/ ToString(FALSE)
    \/ \E c \in CpuModels : CpuOnline(c)
    \/ CpuOffline
    \/ \E d \in DiskKinds : DiskAttach(d)
    \/ DiskDetach
    \/ \E r \in RamSizes : RamResize(r)

SpecIdent == Init /\ [][NextIdent]_vars

\* the Identifier with key/value pairs stored in its lists
StoredInputs ==
    { [key |-> <<"V","e","n","d","o","r">>, value |-> <<"I","n","t","e","l">>],
      [key |-> <<"M","o","d","e","l">>,
       value |-> <<"X","e","o","n"," ","E","5","-","2","6","7","0">>] }

NextStored ==
    \/ \E n \in Names : IdNew(n)
    \/ IdDefault
    \/ \E t \in IdentifierType : IdPush(t)
    \/ \E i \in 1..MaxTypes, d \in StoredInputs : IdPushData(i, d.key, d.value)
    \/ ToString(FALSE)
    \/ \E r \in RamSizes : RamResize(r)

SpecStored == Init /\ [][NextStored]_vars

\* the Identifier and its hashed to_string
DigestNames == { <<"H","W","I","D">> }

NextDigest ==
    \/ \E n \in DigestNames : IdNew(n)
    \/ IdDefault
    \/ \E t \in IdentifierType : IdPush(t)
    \/ ToString(TRUE)

SpecDigest == Init /\ [][NextDigest]_vars

Next == NextData \/ NextBuilder \/ NextDigest \/ NextIdent \/ NextStored

Spec == Init /\ [][Next]_vars

(***************************************************************************)
(* The reference the properties compare with: a join with a separator.     *)
(***************************************************************************)
Sep == <<",", " ">>

RECURSIVE Join(_, _)
Join(strs, sep) ==
    IF strs = << >> THEN EmptyStr
    ELSE IF Len(strs) = 1 THEN strs[1]
    ELSE strs[1] \o sep \o Join(Tail(strs), sep)

KeyValue(d) == d.key \o <<"=">> \o d.value

\* NAME(k=v, k=v, ...) of a tag and a list of key/value pairs
Category(identifier, data) ==
    as_str(identifier) \o <<"(">>
        \o Join([i \in 1..Len(data) |-> KeyValue(data[i])], Sep) \o <<")">>

Label(self) == IF self.name.some THEN self.name.s ELSE EmptyStr

Plaintext(ret_) == ret_.op = "to_string" /\ ~ret_.hash

(***************************************************************************)
(* Properties.                                                             *)
(***************************************************************************)
\* C1: a builder on which add was never called builds NAME followed by "()"
C1_EmptyBuilderBuildsName ==
    (ret.op = "tdb_build" /\ tdb.adds = << >>)
        => ret.str = as_str(tdb.b.identifier) \o <<"(", ")">>

\* C2: an Identifier without categories renders, without error, as its label
\* (nothing when it has none) followed by "[]"
C2_NoCategoriesRendersBrackets ==
    (Plaintext(ret) /\ id.data = << >>)
        => ret.ok /\ ret.str = Label(id) \o <<"[", "]">>

\* C3: a builder with at least one add builds NAME(k1=v1, ..., kn=vn): the
\* pairs in the order of the add calls, joined by ", ", none lost, no
\* trailing separator
C3_BuildJoinsInAddOrder ==
    (ret.op = "tdb_build" /\ Len(tdb.adds) >= 1)
        => ret.str = Category(tdb.b.identifier, tdb.adds)

C3_Witness ==
    /\ ret.op = "tdb_build"
    /\ Len(tdb.adds) >= 2
    /\ tdb.adds[1] # tdb.adds[2]
    /\ ret.str = Category(tdb.b.identifier, tdb.adds)

\* C4: the plain render of an Identifier with at least one category is its
\* label (nothing when absent), "[", what its categories build joined by
\* ", " in their order, "]"
C4_RenderJoinsCategories ==
    (Plaintext(ret) /\ ret.ok /\ Len(id.data) >= 1)
        => ret.str = Label(id) \o <<"[">>
               \o Join([i \in 1..Len(id.data) |-> DataListBuild(id.data[i], sys).s],
                       Sep)
               \o <<"]">>

C4_Witness ==
    /\ Plaintext(ret) /\ ret.ok
    /\ Len(id.data) >= 2
    /\ id.data[1] # id.data[2]
    /\ ~id.name.some
    /\ Head(ret.str) = "["

\* C5: from() of a name that is not CPU, RAM or DISK returns (it does not
\* panic) and what it returns is none of the three tags
C5_UnknownNameIsAnError ==
    (ret.op = "from" /\ ret.str \notin {as_str(t) : t \in IdentifierType})
        => ret.ok /\ ret.tag \notin IdentifierType

\* C6: the plain render shows the key/value pairs stored in the categories
\* of the Identifier, whatever the system reports
C6_RenderShowsStoredData ==
    (Plaintext(ret) /\ Len(id.data) >= 1 /\ Stored(id.data) >= 1)
        => /\ ret.ok
           /\ ret.str = Label(id) \o <<"[">>
                  \o Join([i \in 1..Len(id.data) |->
                              Category(id.data[i].identifier, id.data[i].data)], Sep)
                  \o <<"]">>

\* C7: to_string always returns
C7_RenderNeverPanics == ret.op = "to_string" => ret.ok

\* C8: build gives the Identifier that direct construction from the
\* constructor's arguments, with the last name and the added tags in call
\* order, each with an empty list, gives
RECURSIVE Direct(_, _)
Direct(ident, cs) ==
    IF cs = << >> THEN ident
    ELSE LET c == Head(cs)
         IN  IF c.op = "name"
             THEN Direct([ident EXCEPT !.name = c.name], Tail(cs))
             ELSE Direct([ident EXCEPT !.data = @ \o c.data], Tail(cs))

C8_BuilderEqualsDirect ==
    ret.op = "ib_build"
        => id = Direct([name |-> calls[1].name, data |-> calls[1].data], Tail(calls))

C8_Witness ==
    /\ ret.op = "ib_build"
    /\ calls[1] = [op |-> "new", name |-> None, data |-> << >>]
    /\ Len(calls) = 5
    /\ calls[2].op = "name" /\ calls[3].op = "add"
    /\ calls[4].op = "name" /\ calls[5].op = "add"
    /\ calls[2].name # calls[4].name
    /\ calls[3].data # calls[5].data
    /\ id.name = calls[4].name
    /\ id.data = calls[3].data \o calls[5].data

\* C9: the accessors return the key and the value new was given, and the
\* data object formats as key, "=", value
C9_DataKeepsAndFormats ==
    /\ ret.op \in {"key", "value", "fmt"} => ret.ok
    /\ ret.op = "key" => ret.str = made.key
    /\ ret.op = "value" => ret.str = made.value
    /\ ret.op = "fmt" => ret.str = made.key \o <<"=">> \o made.value

C9_Witness ==
    /\ ret.op = "fmt"
    /\ made.key = <<"M","o","d","e","l">>
    /\ ret.str = <<"M","o","d","e","l","=","I","n","t","e","l">>

\* C10: the hashed render is 128 lowercase hexadecimal characters, the
\* SHA3-512 digest of the bytes of the plain render of the same Identifier;
\* two renders have the same digest exactly when their plaintexts are equal.
\* The digest function is the one that gives the two digests the
\* specification lists for its scenarios C and D.
LowerHexChars == {"0","1","2","3","4","5","6","7","8","9","a","b","c","d","e","f"}

ScenarioC == << "n","a","m","e","[","n","a","m","e","(","k","e","y","=","v","a","l","u","e",")","]" >>

ScenarioCDigest ==
    << "e","4","9","d","c","6","6","2","1","f","6","8","e","b","d","6",
       "e","9","c","f","4","6","4","4","1","f","3","6","2","2","2","b",
       "c","8","3","2","5","7","2","7","f","2","7","8","e","d","f","2",
       "0","f","b","9","9","0","d","a","7","0","f","a","9","0","d","b",
       "9","a","5","e","e","8","d","5","a","c","e","c","4","5","8","7",
       "0","3","b","4","9","7","0","1","6","8","2","f","f","1","e","2",
       "d","e","2","4","8","3","a","0","e","7","d","b","a","8","7","f",
       "1","f","c","1","4","a","7","a","1","c","2","0","f","b","7","e" >>

ScenarioD == << "H","W","I","D","[","C","P","U","(","V","e","n","d","o","r","=","I","n","t","e","l",","," ","M","o","d","e","l","=","X","e","o",
       "n"," ","E","5","-","2","6","7","0",")","]" >>

ScenarioDDigest ==
    << "9","2","1","8","7","e","7","6","5","e","c","c","3","9","a","9",
       "3","e","9","f","4","6","f","a","0","a","9","5","1","d","5","2",
       "8","2","2","f","8","c","1","6","9","1","c","e","d","d","0","0",
       "4","d","b","1","a","0","e","1","b","8","6","a","8","2","a","a",
       "5","a","1","c","d","9","1","6","f","6","7","6","6","c","8","f",
       "7","9","8","7","8","7","b","0","0","e","a","e","d","c","4","a",
       "d","a","6","2","e","1","0","4","3","d","1","6","4","9","a","b",
       "b","e","0","2","1","6","1","c","4","2","a","5","9","c","f","a" >>

HashedScenarioC == Hashed(ScenarioC)
HashedScenarioD == Hashed(ScenarioD)

C10_DigestOfPlainRender ==
    /\ HashedScenarioC = ScenarioCDigest
    /\ HashedScenarioD = ScenarioDDigest
    /\ (ret.op = "to_string" /\ ret.hash /\ ret.ok)
        => LET plain == ToStringResult(id, sys, FALSE).s
           IN  /\ Len(ret.str) = 128
               /\ \A i \in 1..Len(ret.str) : ret.str[i] \in LowerHexChars
               /\ ret.str = LowerHex(Sha3_512(AsBytes(plain)))
               /\ seen.some
               /\ (plain = seen.plain) <=> (ret.str = seen.digest)

C10_Witness ==
    /\ ret.op = "to_string" /\ ret.hash /\ ret.ok
    /\ Len(ret.str) = 128
    /\ Len(id.data) >= 1
    /\ seen.some
    /\ seen.plain # ToStringResult(id, sys, FALSE).s
    /\ seen.digest # ret.str

(***************************************************************************)
(* Instances of a category as the system reports them.                     *)
(***************************************************************************)
\* the disks build_disk does not skip, in the order the system lists them
FixedDisks(s) == SelectSeq(s.disks, LAMBDA d : ~d.removable)

\* one DISK(t=...) per non-removable disk
DiskInstances(s) ==
    [i \in 1..Len(FixedDisks(s)) |->
        Category("DISK", << [key |-> <<"t">>,
                             value |-> ToDecimal(FixedDisks(s)[i].total_space)] >>)]

\* the instances one category of the Identifier stands for
Instances(self, s) ==
    IF self.identifier = "DISK" THEN DiskInstances(s)
    ELSE << DataListBuild(self, s).s >>

RECURSIVE AllInstances(_, _)
AllInstances(data, s) ==
    IF data = << >> THEN << >>
    ELSE Instances(Head(data), s) \o AllInstances(Tail(data), s)

HasCategory(self, t) == \E i \in 1..Len(self.data) : self.data[i].identifier = t

\* C11: when the system has two or more non-removable disks, the plain
\* render of an Identifier with a DISK category shows every disk as its own
\* element, and any two consecutive elements of the render are separated
\* by ", "
C11_InstancesAreSeparated ==
    (Plaintext(ret) /\ ret.ok /\ HasCategory(id, "DISK")
                   /\ Len(FixedDisks(sys)) >= 2)
        => ret.str = Label(id) \o <<"[">>
               \o Join(AllInstances(id.data, sys), Sep) \o <<"]">>

\* the system reports nothing for this category
NoAttributes(self, s) ==
    CASE self.identifier = "CPU" -> Len(s.cpus) = 0
      [] self.identifier = "RAM" -> FALSE
      [] self.identifier = "DISK" -> Len(FixedDisks(s)) = 0

\* NAME() for a category without attributes, what it builds otherwise
PartialRender(self, s) ==
    IF NoAttributes(self, s) THEN Category(self.identifier, << >>)
    ELSE DataListBuild(self, s).s

\* C12: when the system reports nothing for a category of the Identifier,
\* the plain render returns, shows that category as NAME() in its place and
\* shows the other categories as usual
C12_EmptyCategoryStillRenders ==
    (Plaintext(ret) /\ \E i \in 1..Len(id.data) : NoAttributes(id.data[i], sys))
        => /\ ret.ok
           /\ ret.str = Label(id) \o <<"[">>
                  \o Join([i \in 1..Len(id.data) |-> PartialRender(id.data[i], sys)],
                          Sep)
                  \o <<"]">>

\* C13: from() and as_str are inverse on CPU, RAM and DISK: from(as_str(t))
\* returns t, a from() call that returns a tag was given the name of that
\* tag, and no two tags have the same name
C13_FromInvertsAsStr ==
    /\ \A t \in IdentifierType : FromStr(as_str(t)) = [ok |-> TRUE, tag |-> t]
    /\ \A t, u \in IdentifierType : as_str(t) = as_str(u) => t = u
    /\ (ret.op = "from" /\ ret.str \in {as_str(t) : t \in IdentifierType})
          => ret.ok /\ ret.tag \in IdentifierType /\ as_str(ret.tag) = ret.str
    /\ (ret.op = "from" /\ ret.ok)
          => ret.tag \in IdentifierType /\ as_str(ret.tag) = ret.str

C13_Witness ==
    /\ ret.op = "from"
    /\ ret.ok
    /\ ret.tag = "DISK"
    /\ ret.str = as_str("DISK")

====
